---- MODULE Spec2Model ----
(***************************************************************************)
(* Model of src/venice_image_gen_button.py: the Action class of the Venice *)
(* image generation button.  Text is modelled as sequences of one-character *)
(* strings, so that the regular expression, str.replace, str.strip, int()   *)
(* and the markdown formatting are computed character by character.         *)
(***************************************************************************)
EXTENDS Integers, Sequences, FiniteSets, TLC

VARIABLES
    arg,        \* parse_prompt_overrides: the prompt argument of a direct call
    ret,        \* parse_prompt_overrides: the returned (cleaned prompt, overrides)
    pc,         \* action: position in the coroutine
    emitter,    \* action: whether __event_emitter__ is given (truthy)
    api_key,    \* self.valves.VENICE_API_KEY
    body,       \* action: the chat body (a dict, here a function)
    prompt,     \* action: local prompt (after parse_prompt_overrides: cleaned)
    overrides,  \* action: local overrides
    payload,    \* action: the JSON payload of the request
    posts,      \* the requests.post calls issued so far (their payloads)
    data,       \* action: response.json()
    idx,        \* action: position of the for loop in data["images"]
    err,        \* action: str(e) of the exception being handled
    events      \* the notifications handed to __event_emitter__, in order

vars == <<arg, ret, pc, emitter, api_key, body, prompt, overrides, payload,
          posts, data, idx, err, events>>

---------------------------------------------------------------------------
(* Bounds of the model *)

\* a prompt handed to parse_prompt_overrides is made of at most MaxPieces pieces
MaxPieces == 4
\* body["messages"] holds at most MaxMessages messages
MaxMessages == 1
\* the images list of a response holds at most MaxImages entries
MaxImages == 2

---------------------------------------------------------------------------
(* Characters and literal texts *)

LowerLetters == <<"a", "b", "c", "d", "e", "f", "g", "h", "i", "j", "k", "l", "m",
                  "n", "o", "p", "q", "r", "s", "t", "u", "v", "w", "x", "y", "z">>
UpperLetters == <<"A", "B", "C", "D", "E", "F", "G", "H", "I", "J", "K", "L", "M",
                  "N", "O", "P", "Q", "R", "S", "T", "U", "V", "W", "X", "Y", "Z">>
Digits == <<"0", "1", "2", "3", "4", "5", "6", "7", "8", "9">>

Range(s) == {s[i] : i \in DOMAIN s}

\* the regular expression class \w
WordChars == Range(LowerLetters) \cup Range(UpperLetters) \cup Range(Digits) \cup {"_"}
\* the regular expression class \s, and what str.strip() and int() strip
SpaceChars == {" ", "\n", "\t", "\r"}

K_width == <<"w", "i", "d", "t", "h">>
K_height == <<"h", "e", "i", "g", "h", "t">>
K_steps == <<"s", "t", "e", "p", "s">>
K_seed == <<"s", "e", "e", "d">>
K_cfg_scale == <<"c", "f", "g", "_", "s", "c", "a", "l", "e">>
K_style_preset == <<"s", "t", "y", "l", "e", "_", "p", "r", "e", "s", "e", "t">>
K_negative_prompt == <<"n", "e", "g", "a", "t", "i", "v", "e", "_", "p", "r", "o", "m", "p", "t">>

\* the list of line 177
RecognizedKeys ==
    {K_width, K_height, K_steps, K_seed, K_cfg_scale, K_style_preset, K_negative_prompt}
\* the list of line 189
NumericKeys == {K_width, K_height, K_steps, K_seed, K_cfg_scale}

---------------------------------------------------------------------------
(* str methods *)

\* str.lower() on one character
LowerChar(c) ==
    IF \E i \in DOMAIN UpperLetters : UpperLetters[i] = c
    THEN LowerLetters[CHOOSE i \in DOMAIN UpperLetters : UpperLetters[i] = c]
    ELSE c

\* str.lower()
Lower(s) == [i \in DOMAIN s |-> LowerChar(s[i])]

\* s[i:].startswith(t), i counted from 1
StartsWithAt(s, i, t) ==
    /\ i + Len(t) - 1 <= Len(s)
    /\ \A j \in 1..Len(t) : s[i + j - 1] = t[j]

\* str.startswith
StartsWith(s, t) == StartsWithAt(s, 1, t)

\* t in s
Contains(s, t) == \E i \in 1..(Len(s) + 1) : StartsWithAt(s, i, t)

\* str.replace(old, ""): every non-overlapping occurrence, left to right
RECURSIVE ReplaceFrom(_, _, _)
ReplaceFrom(s, i, old) ==
    IF i > Len(s) THEN <<>>
    ELSE IF StartsWithAt(s, i, old) THEN ReplaceFrom(s, i + Len(old), old)
    ELSE <<s[i]>> \o ReplaceFrom(s, i + 1, old)

Replace(s, old) == ReplaceFrom(s, 1, old)

\* str.strip()
Strip(s) ==
    LET keep == {i \in DOMAIN s : s[i] \notin SpaceChars}
    IN  IF keep = {} THEN <<>>
        ELSE LET lo == CHOOSE i \in keep : \A j \in keep : i <= j
                 hi == CHOOSE i \in keep : \A j \in keep : j <= i
             IN  SubSeq(s, lo, hi)

---------------------------------------------------------------------------
(* int(value) *)

DigitValue(c) == (CHOOSE i \in DOMAIN Digits : Digits[i] = c) - 1

RECURSIVE DecimalValue(_, _)
\* the value of the digits of s (underscores skipped), most significant first
DecimalValue(s, acc) ==
    IF s = <<>> THEN acc
    ELSE IF Head(s) = "_" THEN DecimalValue(Tail(s), acc)
    ELSE DecimalValue(Tail(s), 10 * acc + DigitValue(Head(s)))

\* the literal after the optional sign: digits, single underscores between them
IsDecimal(s) ==
    /\ s # <<>>
    /\ s[1] \in Range(Digits)
    /\ s[Len(s)] \in Range(Digits)
    /\ \A i \in DOMAIN s : s[i] \in Range(Digits) \cup {"_"}
    /\ \A i \in 1..(Len(s) - 1) : ~(s[i] = "_" /\ s[i + 1] = "_")

Unsigned(s) == IF s # <<>> /\ s[1] \in {"+", "-"} THEN Tail(s) ELSE s

\* int(value) raises ValueError
IntRaises(value) == ~IsDecimal(Unsigned(Strip(value)))

\* int(value), when it does not raise
IntOf(value) ==
    LET t == Strip(value)
        n == DecimalValue(Unsigned(t), 0)
    IN  IF t[1] = "-" THEN 0 - n ELSE n

---------------------------------------------------------------------------
(* re.findall(r"(\w+):\s*([^\n]+)", prompt) *)

RECURSIVE RunEnd(_, _, _)
\* the first position from i on whose character is not in S (Len(s) + 1 if none)
RunEnd(s, i, S) ==
    IF i <= Len(s) /\ s[i] \in S THEN RunEnd(s, i + 1, S) ELSE i

RECURSIVE LineEnd(_, _)
\* the first position from i on that holds a newline (Len(s) + 1 if none)
LineEnd(s, i) ==
    IF i <= Len(s) /\ s[i] # "\n" THEN LineEnd(s, i + 1) ELSE i

NoMatch == [found |-> FALSE]

\* the match of the pattern that starts at position i, if there is one
MatchAt(s, i) ==
    IF ~(i <= Len(s) /\ s[i] \in WordChars) THEN NoMatch
    ELSE
    LET colon == RunEnd(s, i, WordChars)          \* (\w+) is greedy
    IN  IF ~(colon <= Len(s) /\ s[colon] = ":") THEN NoMatch
        ELSE
        LET sp == RunEnd(s, colon + 1, SpaceChars)  \* \s* is greedy
            \* [^\n]+ needs one character: \s* gives back whitespace until
            \* the character it gives back is not a newline
            back == {k \in (colon + 1)..(sp - 1) : s[k] # "\n"}
            from == IF sp <= Len(s) THEN sp
                    ELSE IF back # {} THEN CHOOSE k \in back : \A j \in back : j <= k
                    ELSE 0
        IN  IF from = 0 THEN NoMatch
            ELSE [found |-> TRUE,
                  key   |-> SubSeq(s, i, colon - 1),
                  value |-> SubSeq(s, from, LineEnd(s, from) - 1),
                  text  |-> SubSeq(s, i, LineEnd(s, from) - 1),
                  next  |-> LineEnd(s, from)]

RECURSIVE FindAllFrom(_, _)
\* the non-overlapping matches from position i on, leftmost first
FindAllFrom(s, i) ==
    IF i > Len(s) THEN <<>>
    ELSE LET m == MatchAt(s, i)
         IN  IF m.found THEN <<m>> \o FindAllFrom(s, m.next)
             ELSE FindAllFrom(s, i + 1)

FindAll(s) == FindAllFrom(s, 1)

---------------------------------------------------------------------------
(* Action.parse_prompt_overrides *)

ColonSpace == <<":", " ">>

\* overrides[key] = value
DictSet(d, k, v) == [x \in DOMAIN d \cup {k} |-> IF x = k THEN v ELSE d[x]]

EmptyDict == [x \in {} |-> 0]

\* the removal of line 187
RemoveOverride(cleaned, key, value) ==
    Strip(Replace(cleaned, key \o ColonSpace \o value))

\* StoreOverride with the assignment turned into a setdefault: the first value stays
StoreOverride_KeepFirst(ov, key, v) == IF key \in DOMAIN ov THEN ov ELSE DictSet(ov, key, v)

\* the assignment of line 194
StoreOverride(ov, key, v) == DictSet(ov, key, v)

\* ParseStep without the continue of line 193: the unconverted text is stored
ParseStep_StoreRaw(st, m) ==
    LET key == Lower(m.key)
    IN  IF key \notin RecognizedKeys THEN st
        ELSE
        LET cleaned == RemoveOverride(st.cleaned, key, m.value)
        IN  IF key \in NumericKeys /\ ~IntRaises(m.value)
            THEN [cleaned |-> cleaned,
                  overrides |-> DictSet(st.overrides, key, [int |-> IntOf(m.value)])]
            ELSE [cleaned |-> cleaned,
                  overrides |-> DictSet(st.overrides, key, [str |-> m.value])]

\* one iteration of the loop of line 175 on the match m
ParseStep(st, m) ==
    LET key == Lower(m.key)
    IN  IF key \notin RecognizedKeys THEN st
        ELSE
        LET cleaned == RemoveOverride(st.cleaned, key, m.value)
        IN  IF key \in NumericKeys
            THEN IF IntRaises(m.value)
                 THEN [cleaned |-> cleaned, overrides |-> st.overrides]
                 ELSE [cleaned |-> cleaned,
                       overrides |-> StoreOverride(st.overrides, key, [int |-> IntOf(m.value)])]
            ELSE [cleaned |-> cleaned,
                  overrides |-> StoreOverride(st.overrides, key, [str |-> m.value])]

RECURSIVE ParseLoop(_, _, _)
ParseLoop(st, ms, i) ==
    IF i > Len(ms) THEN st ELSE ParseLoop(ParseStep(st, ms[i]), ms, i + 1)

parse_prompt_overrides(p) ==
    ParseLoop([cleaned |-> p, overrides |-> EmptyDict], FindAll(p), 1)

---------------------------------------------------------------------------
(* The prompts the model feeds to the parser *)

P_width5 == K_width \o ColonSpace \o <<"5">>
P_steps7 == K_steps \o ColonSpace \o <<"7">>
P_Width7 == <<"W", "i", "d", "t", "h">> \o ColonSpace \o <<"7">>
P_style == K_style_preset \o ColonSpace \o <<"x">>
P_foo == <<"f", "o", "o">> \o ColonSpace \o <<"x">>
P_newline == <<"\n">>
P_comma == <<",", " ">>
P_space == <<" ">>

Pieces == {P_width5, P_steps7, P_Width7, P_style, P_foo, P_newline, P_comma, P_space}

RECURSIVE PromptsOf(_)
\* the texts made of at most n pieces
PromptsOf(n) ==
    IF n = 0 THEN {<<>>}
    ELSE LET shorter == PromptsOf(n - 1)
         IN  shorter \cup {p \o q : p \in shorter, q \in Pieces}

NotCalled == [called |-> FALSE]

---------------------------------------------------------------------------
(* A direct call of parse_prompt_overrides *)

ParseInit ==
    /\ arg \in PromptsOf(MaxPieces)
    /\ ret = NotCalled
    /\ pc = "idle"
    /\ emitter = FALSE
    /\ api_key = <<>>
    /\ body = EmptyDict
    /\ prompt = <<>>
    /\ overrides = EmptyDict
    /\ payload = EmptyDict
    /\ posts = <<>>
    /\ data = EmptyDict
    /\ idx = 0
    /\ err = ""
    /\ events = <<>>

ParseCall ==
    /\ ret = NotCalled
    /\ LET r == parse_prompt_overrides(arg)
       IN  ret' = [called |-> TRUE, cleaned |-> r.cleaned, overrides |-> r.overrides,
                   matches |-> FindAll(arg)]
    /\ UNCHANGED <<arg, pc, emitter, api_key, body, prompt, overrides, payload,
                   posts, data, idx, err, events>>

ParseNext == ParseCall

ParseSpec == ParseInit /\ [][ParseNext]_vars

---------------------------------------------------------------------------
(* Action.Valves: the defaults that __init__ installs *)

IMAGE_WIDTH == 720
IMAGE_HEIGHT == 1080
CFG_SCALE == 7
STEPS == 80
SEED_MAX == 999999
HIDE_WATERMARK == TRUE
RETURN_BINARY == FALSE
MODEL_ID == <<"f", "l", "u", "e", "n", "t", "l", "y", "-", "x", "l">>
STYLE_PRESET == <<"P", "h", "o", "t", "o", "g", "r", "a", "p", "h", "i", "c">>
NEGATIVE_PROMPT == <<>>

\* the values of VENICE_API_KEY the model configures: the default "" and a key
ApiKeys == {<<>>, <<"k">>}

\* random.randint(0, 999999): the draws the model takes
RandomSeeds == {0, SEED_MAX}

---------------------------------------------------------------------------
(* The chat bodies the model hands to action *)

MessageNoContent == [role |-> "user"]
MessageWith(text) == [role |-> "user", content |-> text]

\* the contents of a chat message: the empty text and each single piece
MessageContents == {<<>>} \cup Pieces

Messages == {MessageNoContent} \cup {MessageWith(t) : t \in MessageContents}

RECURSIVE ListsOf(_, _)
\* the lists of at most n elements of S
ListsOf(S, n) ==
    IF n = 0 THEN {<<>>}
    ELSE LET shorter == ListsOf(S, n - 1)
         IN  shorter \cup {Append(l, x) : l \in shorter, x \in S}

Bodies == {EmptyDict} \cup {[messages |-> l] : l \in ListsOf(Messages, MaxMessages)}

---------------------------------------------------------------------------
(* The answers of the image API *)

Http == <<"h", "t", "t", "p">>
E_http_url == <<"h", "t", "t", "p", ":", "/", "/", "x">>
E_https_url == <<"h", "t", "t", "p", "s", ":", "/", "/", "y">>
E_base64 == <<"i", "V", "B", "O", "R">>
E_base64_http == <<"h", "t", "t", "p", "A", "A">>

ImageEntries == {E_http_url, E_https_url, E_base64, E_base64_http}

\* response.json() of a successful answer: with or without the images key
JsonAnswers == {EmptyDict} \cup {[images |-> l] : l \in ListsOf(ImageEntries, MaxImages)}

\* str(e) of what requests.post, raise_for_status and response.json raise
E_timeout == "ReadTimeout"
E_connection == "ConnectionError"
E_http_status == "HTTPError"
E_json == "JSONDecodeError"
\* str(e) of the IndexError of [][-1]
E_index == "list index out of range"

HttpFailures == {E_timeout, E_connection, E_http_status}

NoData == [ok |-> FALSE]
JsonData(j) == [ok |-> TRUE, json |-> j]

---------------------------------------------------------------------------
(* Notifications *)

StatusGenerating ==
    [type |-> "status", data |-> [description |-> <<"Generating image...">>, done |-> FALSE]]

StatusGenerated ==
    [type |-> "status", data |-> [description |-> <<"Image generated!">>, done |-> TRUE]]

\* ErrorStatus without the exception's text
ErrorStatus_Generic(e) ==
    [type |-> "status", data |-> [description |-> <<"Error: ">>, done |-> TRUE]]

\* the notification of the except block
ErrorStatus(e) ==
    [type |-> "status", data |-> [description |-> <<"Error: ", e>>, done |-> TRUE]]

MessageEvent(content) ==
    [type |-> "message", data |-> [content |-> content, role |-> "assistant"]]

MdOpen == <<"!", "[", "i", "m", "a", "g", "e", "]", "(">>
MdClose == <<")">>
DataUrlPrefix == <<"d", "a", "t", "a", ":", "i", "m", "a", "g", "e", "/", "p", "n", "g",
                   ";", "b", "a", "s", "e", "6", "4", ",">>

\* Action._process_base64_image
process_base64_image(image_data) ==
    LET data_url == DataUrlPrefix \o image_data
    IN  MdOpen \o data_url \o MdClose

\* the if of line 118
ImageMarkdown(image_data) ==
    IF StartsWith(image_data, Http)
    THEN MdOpen \o image_data \o MdClose
    ELSE process_base64_image(image_data)

---------------------------------------------------------------------------
(* Action.action *)

\* PreconditionsHold without the test of the API key
PreconditionsHold_EmitterOnly(em, key) == em

\* the negation of the condition of line 70
PreconditionsHold(em, key) == em /\ key # <<>>

\* dict.get(key, default)
DictGet(d, k, default) == IF k \in DOMAIN d THEN d[k] ELSE default

\* body.get("messages", [{}])
BodyMessages(b) == DictGet(b, "messages", <<EmptyDict>>)

\* [-1] of line 83 raises IndexError
LastMessageRaises(b) == BodyMessages(b) = <<>>

\* line 83, when it does not raise
LastContent(b) ==
    LET l == BodyMessages(b)
    IN  DictGet(l[Len(l)], "content", <<>>)

\* the dict of lines 89-104
BuildPayload(cleaned, ov, seed) ==
    [model           |-> [str |-> MODEL_ID],
     prompt          |-> [str |-> cleaned],
     width           |-> DictGet(ov, K_width, [int |-> IMAGE_WIDTH]),
     height          |-> DictGet(ov, K_height, [int |-> IMAGE_HEIGHT]),
     steps           |-> DictGet(ov, K_steps, [int |-> STEPS]),
     hide_watermark  |-> [bool |-> HIDE_WATERMARK],
     return_binary   |-> [bool |-> RETURN_BINARY],
     cfg_scale       |-> DictGet(ov, K_cfg_scale, [int |-> CFG_SCALE]),
     seed            |-> DictGet(ov, K_seed, [int |-> seed]),
     negative_prompt |-> DictGet(ov, K_negative_prompt, [str |-> NEGATIVE_PROMPT]),
     style_preset    |-> [str |-> STYLE_PRESET]]

\* the condition of line 116
HasImages(j) == "images" \in DOMAIN j /\ j["images"] # <<>>

Init ==
    /\ arg = <<>>
    /\ ret = NotCalled
    /\ pc = "called"
    /\ emitter \in BOOLEAN
    /\ api_key \in ApiKeys
    /\ body \in Bodies
    /\ prompt = <<>>
    /\ overrides = EmptyDict
    /\ payload = EmptyDict
    /\ posts = <<>>
    /\ data = NoData
    /\ idx = 0
    /\ err = ""
    /\ events = <<>>

\* lines 70-79: the early return, or the first status
Enter ==
    /\ pc = "called"
    /\ IF PreconditionsHold(emitter, api_key)
       THEN /\ events' = Append(events, StatusGenerating)
            /\ pc' = "try"
       ELSE /\ events' = events
            /\ pc' = "returned"
    /\ UNCHANGED <<arg, ret, emitter, api_key, body, prompt, overrides, payload,
                   posts, data, idx, err>>

\* lines 83-108: the prompt, its overrides and the payload
Prepare ==
    /\ pc = "try"
    /\ IF LastMessageRaises(body)
       THEN /\ err' = E_index
            /\ pc' = "except"
            /\ UNCHANGED <<prompt, overrides, payload>>
       ELSE \E seed \in RandomSeeds :
            LET r == parse_prompt_overrides(LastContent(body))
            IN  /\ prompt' = r.cleaned
                /\ overrides' = r.overrides
                /\ payload' = BuildPayload(r.cleaned, r.overrides, seed)
                /\ pc' = "post"
                /\ err' = err
    /\ UNCHANGED <<arg, ret, emitter, api_key, body, posts, data, idx, events>>

\* lines 110-114: the request fails
PostFails ==
    /\ pc = "post"
    /\ posts' = Append(posts, payload)
    /\ \E e \in HttpFailures \cup {E_json} : err' = e
    /\ pc' = "except"
    /\ UNCHANGED <<arg, ret, emitter, api_key, body, prompt, overrides, payload,
                   data, idx, events>>

\* lines 110-116: the request is answered
PostAnswered ==
    /\ pc = "post"
    /\ posts' = Append(posts, payload)
    /\ \E j \in JsonAnswers :
          /\ data' = JsonData(j)
          /\ IF HasImages(j) THEN pc' = "loop" /\ idx' = 1
                             ELSE pc' = "done" /\ idx' = idx
    /\ UNCHANGED <<arg, ret, emitter, api_key, body, prompt, overrides, payload,
                   err, events>>

\* lines 117-128: one iteration of the for loop
EmitImage ==
    /\ pc = "loop"
    /\ events' = Append(events, MessageEvent(ImageMarkdown(data.json["images"][idx])))
    /\ IF idx < Len(data.json["images"])
       THEN idx' = idx + 1 /\ pc' = pc
       ELSE idx' = idx /\ pc' = "done"
    /\ UNCHANGED <<arg, ret, emitter, api_key, body, prompt, overrides, payload,
                   posts, data, err>>

\* lines 130-135
EmitGenerated ==
    /\ pc = "done"
    /\ events' = Append(events, StatusGenerated)
    /\ pc' = "returned"
    /\ UNCHANGED <<arg, ret, emitter, api_key, body, prompt, overrides, payload,
                   posts, data, idx, err>>

\* lines 137-144
Except ==
    /\ pc = "except"
    /\ events' = Append(events, ErrorStatus(err))
    /\ pc' = "returned"
    /\ UNCHANGED <<arg, ret, emitter, api_key, body, prompt, overrides, payload,
                   posts, data, idx, err>>

Next ==
    \/ Enter
    \/ Prepare
    \/ PostFails
    \/ PostAnswered
    \/ EmitImage
    \/ EmitGenerated
    \/ Except

Spec == Init /\ [][Next]_vars

---------------------------------------------------------------------------
(* Properties of parse_prompt_overrides, checked under ParseSpec *)

\* the match m has a recognized key (line 177)
Recognized(m) == Lower(m.key) \in RecognizedKeys

\* the match m reaches the assignment of line 194
Storable(m) ==
    /\ Recognized(m)
    /\ Lower(m.key) \in NumericKeys => ~IntRaises(m.value)

\* a recognized numeric match whose value int() rejects
FailsConversion(m) ==
    /\ Lower(m.key) \in NumericKeys
    /\ IntRaises(m.value)

\* what a storable match stores
StoredValue(m) ==
    IF Lower(m.key) \in NumericKeys THEN [int |-> IntOf(m.value)] ELSE [str |-> m.value]

HasKey(m, k) == Lower(m.key) = k

\* the matches of the call whose lower-cased key is k, in input order
MatchesOf(k) == SelectSeq(ret.matches, LAMBDA m : HasKey(m, k))

NumericTokens ==
    {[key |-> K_width, int |-> 5, text |-> P_width5],
     [key |-> K_steps, int |-> 7, text |-> P_steps7]}

\* C1: for a prompt holding two numeric override tokens of different keys on
\* one line, separated by ", ", the overrides hold both keys with their
\* integers and the cleaned prompt does not contain the first token's text.
C1_SameLineOverrides ==
    ret.called =>
        \A a \in NumericTokens, b \in NumericTokens :
            (a.key # b.key /\ arg = a.text \o P_comma \o b.text) =>
                /\ a.key \in DOMAIN ret.overrides
                /\ b.key \in DOMAIN ret.overrides
                /\ ret.overrides[a.key] = [int |-> a.int]
                /\ ret.overrides[b.key] = [int |-> b.int]
                /\ ~Contains(ret.cleaned, a.text)

\* C3: a match whose lower-cased key is not recognized is no key of the
\* overrides and its matched text (trailing whitespace aside, which the
\* final trim may take) is still in the cleaned prompt.
C3_UnrecognizedUntouched ==
    ret.called =>
        \A i \in DOMAIN ret.matches :
            ~Recognized(ret.matches[i]) =>
                /\ Lower(ret.matches[i].key) \notin DOMAIN ret.overrides
                /\ Contains(ret.cleaned, Strip(ret.matches[i].text))

\* s without the first occurrence of t
RemoveFirst(s, t) ==
    IF ~Contains(s, t) THEN s
    ELSE LET at == CHOOSE i \in 1..(Len(s) + 1) :
                       /\ StartsWithAt(s, i, t)
                       /\ \A j \in 1..(i - 1) : ~StartsWithAt(s, j, t)
         IN  SubSeq(s, 1, at - 1) \o SubSeq(s, at + Len(t), Len(s))

RECURSIVE C4_Removed(_, _, _, _)
\* the prompt after the first occurrence of the text of each recognized match
\* from the i-th on is removed, trimmed after every removal or not
C4_Removed(s, ms, i, trimEach) ==
    IF i > Len(ms) THEN s
    ELSE IF ~Recognized(ms[i]) THEN C4_Removed(s, ms, i + 1, trimEach)
    ELSE LET r == RemoveFirst(s, ms[i].text)
         IN  C4_Removed(IF trimEach THEN Strip(r) ELSE r, ms, i + 1, trimEach)

\* C4: when the prompt has a recognized match, the cleaned prompt is the
\* prompt with, for each recognized match, the first occurrence of the text
\* as matched removed, and without leading or trailing whitespace.
C4_ExactMatchRemoved ==
    (ret.called /\ \E i \in DOMAIN ret.matches : Recognized(ret.matches[i])) =>
        /\ ret.cleaned = Strip(ret.cleaned)
        /\ ret.cleaned \in {Strip(C4_Removed(arg, ret.matches, 1, TRUE)),
                            Strip(C4_Removed(arg, ret.matches, 1, FALSE))}

C6_TypedOverrides ==
    ret.called =>
        /\ DOMAIN ret.overrides \subseteq RecognizedKeys
        /\ \A k \in DOMAIN ret.overrides :
              IF k \in NumericKeys
              THEN DOMAIN ret.overrides[k] = {"int"} /\ ret.overrides[k].int \in Int
              ELSE DOMAIN ret.overrides[k] = {"str"}
        /\ \A i \in DOMAIN ret.matches :
              FailsConversion(ret.matches[i]) =>
                  /\ (\A j \in DOMAIN ret.matches :
                         HasKey(ret.matches[j], Lower(ret.matches[i].key))
                             => ~Storable(ret.matches[j]))
                     => Lower(ret.matches[i].key) \notin DOMAIN ret.overrides
                  /\ \A j \in DOMAIN ret.matches :
                         (j > i /\ Storable(ret.matches[j]))
                             => Lower(ret.matches[j].key) \in DOMAIN ret.overrides

\* a call where a numeric match fails to convert and is absent from the
\* overrides, and a later match is stored
C6_Witness ==
    /\ ret.called
    /\ \E i \in DOMAIN ret.matches, j \in DOMAIN ret.matches :
          /\ i < j
          /\ FailsConversion(ret.matches[i])
          /\ Lower(ret.matches[i].key) \notin DOMAIN ret.overrides
          /\ Storable(ret.matches[j])
          /\ Lower(ret.matches[j].key) \in DOMAIN ret.overrides

---------------------------------------------------------------------------
(* Properties of action, checked under Spec *)

\* the payload fields that have an override key, with the key and the default
OverridableFields ==
    {<<"width", K_width, [int |-> IMAGE_WIDTH]>>,
     <<"height", K_height, [int |-> IMAGE_HEIGHT]>>,
     <<"steps", K_steps, [int |-> STEPS]>>,
     <<"cfg_scale", K_cfg_scale, [int |-> CFG_SCALE]>>,
     <<"negative_prompt", K_negative_prompt, [str |-> NEGATIVE_PROMPT]>>,
     <<"style_preset", K_style_preset, [str |-> STYLE_PRESET]>>}

\* C2: every payload field that has an override key carries the parsed value
\* when the overrides hold the key, and the Valves default when they do not.
C2_OverrideElseDefault ==
    posts # <<>> =>
        \A f \in OverridableFields :
            posts[1][f[1]] = IF f[2] \in DOMAIN overrides THEN overrides[f[2]] ELSE f[3]

\* C7: without an event emitter or with an empty API key, action returns
\* with no notification emitted and no HTTP request issued.
C7_SilentNoOp ==
    (~emitter \/ api_key = <<>>) =>
        /\ events = <<>>
        /\ posts = <<>>
        /\ pc \in {"called", "returned"}

\* action has returned, was given an emitter and a body with messages, and
\* the API key is empty
C7_Witness ==
    /\ pc = "returned"
    /\ emitter
    /\ api_key = <<>>
    /\ "messages" \in DOMAIN body
    /\ body["messages"] # <<>>

\* the images list of the answer (empty when the key is absent)
AnsweredImages == IF "images" \in DOMAIN data.json THEN data.json["images"] ELSE <<>>

IsHttpUrl(e) ==
    \/ StartsWith(e, <<"h", "t", "t", "p", ":", "/", "/">>)
    \/ StartsWith(e, <<"h", "t", "t", "p", "s", ":", "/", "/">>)

UrlMarkdown(e) == <<"!", "[", "i", "m", "a", "g", "e", "]", "(">> \o e \o <<")">>

DataUrlMarkdown(e) ==
    <<"!", "[", "i", "m", "a", "g", "e", "]", "(",
      "d", "a", "t", "a", ":", "i", "m", "a", "g", "e", "/", "p", "n", "g", ";",
      "b", "a", "s", "e", "6", "4", ",">> \o e \o <<")">>

\* C8: after a successful answer the notifications are the first
\* status, one assistant message per entry in order (the URL form when the
\* entry is an HTTP(S) URL, the data URL form otherwise), then the final status.
C8_UrlOrDataUrl ==
    (pc = "returned" /\ data.ok) =>
        events = <<StatusGenerating>>
                 \o [i \in 1..Len(AnsweredImages) |->
                        MessageEvent(IF IsHttpUrl(AnsweredImages[i])
                                     THEN UrlMarkdown(AnsweredImages[i])
                                     ELSE DataUrlMarkdown(AnsweredImages[i]))]
                 \o <<StatusGenerated>>

\* What action does after a successful answer: the notifications of C8, the
\* URL form being used for every entry that starts with "http".
C8_HttpPrefixOrDataUrl ==
    (pc = "returned" /\ data.ok) =>
        events = <<StatusGenerating>>
                 \o [i \in 1..Len(AnsweredImages) |->
                        MessageEvent(IF StartsWith(AnsweredImages[i], <<"h", "t", "t", "p">>)
                                     THEN UrlMarkdown(AnsweredImages[i])
                                     ELSE DataUrlMarkdown(AnsweredImages[i]))]
                 \o <<StatusGenerated>>

\* C9: when the HTTP call fails, one request was issued and the
\* notifications are the first status and then one error status with
\* done = true and the exception's text; no message, no "Image generated!".
C9_SingleErrorStatus ==
    err \in HttpFailures =>
        /\ Len(posts) = 1
        /\ pc \in {"except", "returned"}
        /\ pc = "except" => events = <<StatusGenerating>>
        /\ pc = "returned" =>
              events = <<StatusGenerating,
                         [type |-> "status",
                          data |-> [description |-> <<"Error: ", err>>, done |-> TRUE]]>>

\* action has returned after the request timed out
C9_Witness ==
    /\ pc = "returned"
    /\ err = E_timeout
    /\ Len(events) = 2

\* the body has no usable last-message content
NoUsableContent(b) ==
    \/ "messages" \notin DOMAIN b
    \/ b["messages"] = <<>>
    \/ "content" \notin DOMAIN b["messages"][Len(b["messages"])]

\* C10: with the preconditions met and no usable last-message content,
\* action sends the request with the empty string as the prompt.
C10_EmptyPromptFallback ==
    (pc = "returned" /\ emitter /\ api_key # <<>> /\ NoUsableContent(body)) =>
        /\ err # E_index
        /\ Len(posts) = 1
        /\ posts[1].prompt = [str |-> <<>>]

====
